---- MODULE Spec2Model ----
(***************************************************************************)
(* A model of src/src/main.rs (rsogo/wasabi): the frame-buffer rasterizer  *)
(* (draw_point, fill_rect, draw_line, draw_font_fg, draw_str_fg over the   *)
(* Bitmap trait), the memory-map enumerator (MemoryMapHolder and           *)
(* MemoryMapIterator) and the entry point efi_main.                        *)
(*                                                                         *)
(* Coordinates are i64 in the source.  The model keeps them as integers:   *)
(* every value the model computes stays below 2^31, so no i64 operation    *)
(* of the source wraps on the inputs explored here.  The u64 page total of *)
(* efi_main does overflow: it is kept in units of 2^52 pages, modulo 2^64. *)
(*                                                                         *)
(* Where the builds of the program differ (a debug assertion or overflow   *)
(* check that panics, undefined behaviour), an operator returns the set of *)
(* the outcomes and the action chooses among them.                         *)
(***************************************************************************)
EXTENDS Integers, Sequences, FiniteSets, TLC

VARIABLES
    \* ---- rasterizer ----
    canvas,     \* the Bitmap: [width, height, stride] (stride = pixels_per_line)
    buf,        \* the backing region: pixel slot index -> u32 colour
    oob,        \* byte offsets written outside the backing region (undefined behaviour)
    call,       \* the last drawing call: [op, args, res]
    prev,       \* buf as it was before the last drawing call
    wr,         \* pixel slot indices written by the last drawing call
    left,       \* number of drawing calls the exploration still allows
    \* ---- memory map ----
    holder,     \* MemoryMapHolder: [memory_map_buffer, memory_map_size, descriptor_size]
    filled,     \* whether get_memory_map has written the holder
    iter,       \* MemoryMapIterator: [ofs] or NoIter
    item,       \* what the last next() did: NoItem, None, Some(ofs) or Panic
    yielded,    \* offsets of the descriptors yielded by the current iteration
    first,      \* the sequence yielded by the previous complete iteration, or NoRun
    total_memory_size, \* the u64 sum efi_main keeps, in units of 2^52 pages
    \* ---- entry point ----
    pc,         \* position of efi_main
    vram,       \* VramBufferInfo: [width, height, stride] or NoVram
    fb_writes,  \* whether any frame-buffer pixel was written by efi_main
    mm_queries, \* number of get_memory_map calls made by efi_main
    lookups,    \* number of locate_protocol calls made by efi_main
    status,     \* the EfiStatus locate_protocol returned, or "none"
    halted      \* whether hlt has executed

rvars == <<canvas, buf, oob, call, prev, wr, left>>
mvars == <<holder, filled, iter, item, yielded, first, total_memory_size>>
bvars == <<pc, vram, fb_writes, mm_queries, lookups, status, halted>>
vars == <<canvas, buf, oob, call, prev, wr, left,
          holder, filled, iter, item, yielded, first, total_memory_size,
          pc, vram, fb_writes, mm_queries, lookups, status, halted>>

(***************************************************************************)
(* Bounds of the model.                                                    *)
(***************************************************************************)
MaxW == 4          \* largest canvas width explored
MaxH == 3          \* largest canvas height explored
MaxS == 4          \* largest stride explored
MaxOps == 2        \* longest sequence of drawing calls explored

Min(a, b) == IF a < b THEN a ELSE b
Max(a, b) == IF a > b THEN a ELSE b
Abs(a) == IF a < 0 THEN -a ELSE a
Signum(a) == IF a < 0 THEN -1 ELSE IF a > 0 THEN 1 ELSE 0

(***************************************************************************)
(* trait Bitmap                                                            *)
(***************************************************************************)
bytes_per_pixel == 4

BadXRangeWidthOnly(c, x) == 0 <= x /\ x < c.width

is_in_x_range(c, x) == 0 <= x /\ x < Min(c.width, c.stride)

is_in_y_range(c, y) == 0 <= y /\ y < c.height

\* Byte offset from the buffer base of the pixel at (x, y).
unchecked_pixel_at_mut(c, x, y) == (y * c.stride + x) * bytes_per_pixel

\* The backing region holds height * stride pixels of bytes_per_pixel bytes.
RegionBytes(c) == c.height * c.stride * bytes_per_pixel

InRegion(c, off) == 0 <= off /\ off + bytes_per_pixel <= RegionBytes(c)

Slots(c) == 0 .. (c.height * c.stride - 1)

\* A drawing state: the buffer, the out-of-region writes, the write log.
DState(b, o, w) == [buf |-> b, oob |-> o, wr |-> w]

\* *ptr = color for the pointer unchecked_pixel_at_mut(x, y).
Store(st, c, off, color) ==
    IF InRegion(c, off)
    THEN [st EXCEPT !.buf[off \div bytes_per_pixel] = color,
                    !.wr = @ \cup {off \div bytes_per_pixel}]
    ELSE [st EXCEPT !.oob = @ \cup {off}]

unchecked_draw_point(st, c, x, y, color) ==
    Store(st, c, unchecked_pixel_at_mut(c, x, y), color)

\* pixel_at_mut: Some(pointer) when (x, y) is in range, else None.
pixel_at_mut(c, x, y) ==
    IF is_in_x_range(c, x) /\ is_in_y_range(c, y)
    THEN <<"Some", unchecked_pixel_at_mut(c, x, y)>>
    ELSE <<"None">>

\* Reading the pixel at (x, y) through the checked accessor.
ReadPixel(b, c, x, y) ==
    LET p == pixel_at_mut(c, x, y)
    IN  IF p[1] = "Some" THEN <<"Some", b[p[2] \div bytes_per_pixel]>> ELSE <<"None">>

(***************************************************************************)
(* Rasterizer                                                              *)
(***************************************************************************)
Ok(st) == [st |-> st, res |-> "Ok"]
Err(st) == [st |-> st, res |-> "Err"]

BadDrawPointNextSlot(st, c, x, y, color) ==
    LET p == pixel_at_mut(c, x, y)
    IN  IF p[1] = "Some" THEN Ok(Store(st, c, p[2] + bytes_per_pixel, color)) ELSE Err(st)

draw_point(st, c, x, y, color) ==
    LET p == pixel_at_mut(c, x, y)
    IN  IF p[1] = "Some" THEN Ok(Store(st, c, p[2], color)) ELSE Err(st)

\* for y in py..(py + h) { for x in px..(px + w) { unchecked_draw_point } }
RECURSIVE FillRow(_, _, _, _, _, _)
FillRow(st, c, x, xend, y, color) ==
    IF x >= xend THEN st
    ELSE FillRow(unchecked_draw_point(st, c, x, y, color), c, x + 1, xend, y, color)

RECURSIVE FillRows(_, _, _, _, _, _, _)
FillRows(st, c, px, xend, y, yend, color) ==
    IF y >= yend THEN st
    ELSE FillRows(FillRow(st, c, px, xend, y, color), c, px, xend, y + 1, yend, color)

BadFillRectNoCornerCheck(st, c, px, py, w, h, color) ==
    IF ~is_in_x_range(c, px) \/ ~is_in_y_range(c, py)
    THEN Err(st)
    ELSE Ok(FillRows(st, c, px, px + w, py, py + h, color))

\* The range check at the head of fill_rect.
FillRectOutOfRange(c, px, py, w, h) ==
    \/ ~is_in_x_range(c, px)
    \/ ~is_in_y_range(c, py)
    \/ ~is_in_x_range(c, px + w - 1)
    \/ ~is_in_y_range(c, py + h - 1)

fill_rect(st, c, px, py, w, h, color) ==
    IF FillRectOutOfRange(c, px, py, w, h)
    THEN Err(st)
    ELSE Ok(FillRows(st, c, px, px + w, py, py + h, color))

None == <<"None">>
Some(v) == <<"Some", v>>

BadSlopeNoHalving(da, db, ia) ==
    IF da < db THEN None
    ELSE IF da = 0 THEN Some(0)
    ELSE IF 0 <= ia /\ ia <= da THEN Some((2 * db * ia + da) \div da)
    ELSE None

\* All operands are non-negative where the division is reached, so Rust's
\* truncating division and \div agree.
calc_slope_point(da, db, ia) ==
    IF da < db THEN None
    ELSE IF da = 0 THEN Some(0)
    ELSE IF 0 <= ia /\ ia <= da THEN Some(((2 * db * ia + da) \div da) \div 2)
    ELSE None

\* The loop of draw_line over the half-open range ia..da (Rust's 0..dx):
\* flat_map drops the None of calc_slope_point, `?` returns the first error.
RECURSIVE LineLoop(_, _, _, _, _, _, _, _, _, _, _)
LineLoop(st, c, x0, y0, sx, sy, da, db, ia, xmajor, color) ==
    IF ia >= da THEN Ok(st)
    ELSE LET p == calc_slope_point(da, db, ia)
         IN  IF p[1] = "None"
             THEN LineLoop(st, c, x0, y0, sx, sy, da, db, ia + 1, xmajor, color)
             ELSE LET rx == IF xmajor THEN ia ELSE p[2]
                      ry == IF xmajor THEN p[2] ELSE ia
                      r == draw_point(st, c, x0 + rx * sx, y0 + ry * sy, color)
                  IN  IF r.res = "Err" THEN r
                      ELSE LineLoop(r.st, c, x0, y0, sx, sy, da, db, ia + 1, xmajor, color)

\* The range check at the head of draw_line.
DrawLineOutOfRange(c, x0, y0, x1, y1) ==
    \/ ~is_in_x_range(c, x0)
    \/ ~is_in_y_range(c, y0)
    \/ ~is_in_x_range(c, x1)
    \/ ~is_in_y_range(c, y1)

draw_line(st, c, x0, y0, x1, y1, color) ==
    IF DrawLineOutOfRange(c, x0, y0, x1, y1)
    THEN Err(st)
    ELSE LET dx == Abs(x1 - x0)
             sx == Signum(x1 - x0)
             dy == Abs(y1 - y0)
             sy == Signum(y1 - y0)
         IN  IF dx >= dy
             THEN LineLoop(st, c, x0, y0, sx, sy, dx, dy, 0, TRUE, color)
             ELSE LineLoop(st, c, x0, y0, sx, sy, dy, dx, 0, FALSE, color)

(***************************************************************************)
(* Font renderer.  font.txt (include_str! at lookup_font) is not part of   *)
(* the sources at hand: FONT_SOURCE is a small table in the format the     *)
(* specification gives (a header line 0xNN followed by 16 rows of 8 cells, *)
(* '*' for ink).  A line is a sequence of one-character strings.           *)
(***************************************************************************)
RowBlank == <<".", ".", ".", ".", ".", ".", ".", ".">>
RowFull  == <<"*", "*", "*", "*", "*", "*", "*", "*">>
RowEdges == <<"*", ".", ".", ".", ".", ".", ".", "*">>
RowMid   == <<".", ".", ".", "*", "*", ".", ".", ".">>
RowLegs  == <<".", "*", ".", ".", ".", ".", "*", ".">>
RowBar   == <<".", "*", "*", "*", "*", "*", "*", ".">>

FONT_SOURCE ==
    << <<"0", "x", "4", "1">>,
       RowBlank, RowMid, RowMid, RowLegs, RowLegs, RowLegs, RowLegs, RowBar,
       RowLegs, RowLegs, RowLegs, RowLegs, RowLegs, RowEdges, RowBlank, RowBlank,
       <<>>,
       <<"0", "x", "7", "f">>,
       RowFull, RowFull, RowFull, RowFull, RowFull, RowFull, RowFull, RowFull,
       RowFull, RowFull, RowFull, RowFull, RowFull, RowFull, RowFull, RowFull,
       <<>> >>

HexDigits ==
    [ch \in {"0", "1", "2", "3", "4", "5", "6", "7", "8", "9",
             "a", "b", "c", "d", "e", "f", "A", "B", "C", "D", "E", "F"} |->
        CASE ch = "0" -> 0 [] ch = "1" -> 1 [] ch = "2" -> 2 [] ch = "3" -> 3
          [] ch = "4" -> 4 [] ch = "5" -> 5 [] ch = "6" -> 6 [] ch = "7" -> 7
          [] ch = "8" -> 8 [] ch = "9" -> 9
          [] ch \in {"a", "A"} -> 10 [] ch \in {"b", "B"} -> 11
          [] ch \in {"c", "C"} -> 12 [] ch \in {"d", "D"} -> 13
          [] ch \in {"e", "E"} -> 14 [] ch \in {"f", "F"} -> 15]

\* u8::from_str_radix(digits, 16): an error on an empty string, on a
\* character that is no hex digit and on a value above 255.
RECURSIVE HexAcc(_, _, _)
HexAcc(digits, i, acc) ==
    IF i > Len(digits) THEN <<"Ok", acc>>
    ELSE IF digits[i] \notin DOMAIN HexDigits THEN <<"Err">>
    ELSE LET v == acc * 16 + HexDigits[digits[i]]
         IN  IF v > 255 THEN <<"Err">> ELSE HexAcc(digits, i + 1, v)

\* A leading '+' is accepted when digits follow it.
from_str_radix16(digits) ==
    IF Len(digits) = 0 THEN <<"Err">>
    ELSE IF digits[1] = "+"
         THEN IF Len(digits) = 1 THEN <<"Err">> ELSE HexAcc(digits, 2, 0)
         ELSE HexAcc(digits, 1, 0)

\* line.strip_prefix("0x")
strip_prefix_0x(line) ==
    IF Len(line) >= 2 /\ line[1] = "0" /\ line[2] = "x"
    THEN Some(SubSeq(line, 3, Len(line)))
    ELSE None

\* The glyph read from the (at most 16) lines after line i: cell (y, x) is
\* the x-th character of the y-th line, '.' where the text has none.
GlyphAfter(i) ==
    [y \in 1 .. 16 |->
        [x \in 1 .. 8 |->
            IF i + y <= Len(FONT_SOURCE) /\ x <= Len(FONT_SOURCE[i + y])
            THEN FONT_SOURCE[i + y][x]
            ELSE "."]]

RECURSIVE ScanFont(_, _)
ScanFont(cp, i) ==
    IF i > Len(FONT_SOURCE) THEN None
    ELSE LET hdr == strip_prefix_0x(FONT_SOURCE[i])
         IN  IF hdr[1] = "None" THEN ScanFont(cp, i + 1)
             ELSE LET n == from_str_radix16(hdr[2])
                  IN  IF n[1] = "Ok" /\ n[2] = cp
                      THEN Some(GlyphAfter(i))
                      ELSE ScanFont(cp, i + 1)

\* Characters are code points; u8::try_from(c) fails above 255.
Chars == {65, 66, 127, 955}

FontTable == [cp \in Chars |-> IF cp \in 0 .. 255 THEN ScanFont(cp, 1) ELSE None]

lookup_font(cp) == FontTable[cp]

\* The cells (dx, dy) of a glyph that hold ink.
InkCells(font) == {d \in (0 .. 7) \X (0 .. 15) : font[d[2] + 1][d[1] + 1] = "*"}

\* The two loops of draw_font_fg: one draw_point per ink cell, its result
\* dropped (let _ =).  Every draw_point of the call stores the same colour and
\* reads nothing, so the order of the cells does not matter: each draw_point is
\* applied to the state at entry and the stores are merged.
draw_font_fg(st, c, x, y, color, ch) ==
    LET f == lookup_font(ch)
        entry == [st EXCEPT !.wr = {}, !.oob = {}]
        outs == {draw_point(entry, c, x + d[1], y + d[2], color).st : d \in InkCells(f[2])}
        stored == UNION {o.wr : o \in outs}
    IN  IF f[1] = "Some"
        THEN [buf |-> [k \in DOMAIN st.buf |->
                          IF k \in stored
                          THEN (CHOOSE o \in outs : k \in o.wr).buf[k]
                          ELSE st.buf[k]],
              oob |-> st.oob \cup UNION {o.oob : o \in outs},
              wr |-> st.wr \cup stored]
        ELSE st

RECURSIVE StrLoop(_, _, _, _, _, _, _)
StrLoop(st, c, x, y, color, str, i) ==
    IF i >= Len(str) THEN st
    ELSE StrLoop(draw_font_fg(st, c, x + i * 8, y, color, str[i + 1]),
                 c, x, y, color, str, i + 1)

draw_str_fg(st, c, x, y, color, str) == StrLoop(st, c, x, y, color, str, 0)

(***************************************************************************)
(* Idle values of the variables a specification does not use.              *)
(***************************************************************************)
NoIter == [ofs |-> -1]
NoItem == <<"NoItem">>
NoRun == <<-1>>
NoVram == [width |-> -1, height |-> -1, stride |-> -1]
NoCall == [op |-> "none", args |-> <<>>, res |-> "none"]

RasterIdle ==
    /\ canvas = [width |-> 0, height |-> 0, stride |-> 0]
    /\ buf = <<>>
    /\ oob = {}
    /\ call = NoCall
    /\ prev = <<>>
    /\ wr = {}
    /\ left = 0

BootIdle ==
    /\ pc = "idle"
    /\ vram = NoVram
    /\ fb_writes = FALSE
    /\ mm_queries = 0
    /\ lookups = 0
    /\ status = "none"
    /\ halted = FALSE

(***************************************************************************)
(* The rasterizer as a state machine: a canvas of any geometry, then a     *)
(* sequence of drawing calls with arbitrary arguments.                     *)
(***************************************************************************)
Colors == {1, 2}
Background == 0

Canvases == [width : 0 .. MaxW, height : 0 .. MaxH, stride : 0 .. MaxS]

\* Arguments reach one step past every edge of the canvas and of a row.
XS(c) == -1 .. Max(c.width, c.stride)
YS(c) == -1 .. c.height
WS(c) == -1 .. (Max(c.width, c.stride) + 1)
HS(c) == -1 .. (c.height + 1)
\* Glyph origins: the glyph wholly left of / above the canvas, overlapping
\* its edges, and inside it.
GX(c) == {-8, -7, -1} \cup (0 .. c.width)
GY(c) == {-16, -15, -1} \cup (0 .. c.height)
Strs == {<<>>, <<65>>, <<66, 127>>, <<955, 65>>}

\* The state a drawing call leaves: r is what the function returned.
Called(op, args, r) ==
    /\ buf' = r.st.buf
    /\ oob' = r.st.oob
    /\ wr' = r.st.wr
    /\ prev' = buf
    /\ call' = [op |-> op, args |-> args, res |-> r.res]
    /\ left' = left - 1
    /\ UNCHANGED <<canvas, mvars, bvars>>

Entry == DState(buf, oob, {})

DrawPoint ==
    /\ left > 0 /\ call = NoCall
    /\ \E x \in XS(canvas), y \in YS(canvas), color \in Colors :
           Called("draw_point", <<x, y, color>>, draw_point(Entry, canvas, x, y, color))

FillRect ==
    /\ left > 0 /\ call = NoCall
    /\ \E px \in XS(canvas), py \in YS(canvas), w \in WS(canvas), h \in HS(canvas),
          color \in Colors :
           Called("fill_rect", <<px, py, w, h, color>>,
                  fill_rect(Entry, canvas, px, py, w, h, color))

DrawLine ==
    /\ left > 0 /\ call = NoCall
    /\ \E x0 \in XS(canvas), y0 \in YS(canvas), x1 \in XS(canvas), y1 \in YS(canvas),
          color \in Colors :
           Called("draw_line", <<x0, y0, x1, y1, color>>,
                  draw_line(Entry, canvas, x0, y0, x1, y1, color))

DrawFontFg ==
    /\ left > 0 /\ call = NoCall
    /\ \E x \in GX(canvas), y \in GY(canvas), color \in Colors, ch \in Chars :
           Called("draw_font_fg", <<x, y, color, ch>>,
                  Ok(draw_font_fg(Entry, canvas, x, y, color, ch)))

DrawStrFg ==
    /\ left > 0 /\ call = NoCall
    /\ \E x \in GX(canvas), y \in GY(canvas), color \in Colors, str \in Strs :
           Called("draw_str_fg", <<x, y, color, str>>,
                  Ok(draw_str_fg(Entry, canvas, x, y, color, str)))

MemIdle ==
    /\ holder = [memory_map_buffer |-> <<>>, memory_map_size |-> 0, descriptor_size |-> 0]
    /\ total_memory_size = 0
    /\ filled = FALSE
    /\ iter = NoIter
    /\ item = NoItem
    /\ yielded = <<>>
    /\ first = NoRun

\* One drawing call on a fresh canvas of any geometry within the bounds.
Init ==
    /\ canvas \in Canvases
    /\ buf = [k \in Slots(canvas) |-> Background]
    /\ oob = {}
    /\ call = NoCall
    /\ prev = buf
    /\ wr = {}
    /\ left = 1
    /\ MemIdle
    /\ BootIdle

\* Sequences of up to MaxOps drawing calls, on canvases without padding,
\* with padding (stride > width) and with a stride below the width.
SeqCanvases ==
    { [width |-> 2, height |-> 2, stride |-> 2],
      [width |-> 2, height |-> 2, stride |-> 3],
      [width |-> 3, height |-> 1, stride |-> 2],
      [width |-> 1, height |-> 2, stride |-> 1] }

SeqInit ==
    /\ canvas \in SeqCanvases
    /\ buf = [k \in Slots(canvas) |-> Background]
    /\ oob = {}
    /\ call = NoCall
    /\ prev = buf
    /\ wr = {}
    /\ left = MaxOps
    /\ MemIdle
    /\ BootIdle

Next ==
    \/ DrawPoint
    \/ FillRect
    \/ DrawLine
    \/ DrawFontFg
    \/ DrawStrFg

Spec == Init /\ [][Next]_vars

\* The caller drops the result of the call (let _ = ...) and goes on to its
\* next statement: only the frame buffer carries over to the next call.
Continue ==
    /\ call # NoCall
    /\ left > 0
    /\ call' = NoCall
    /\ prev' = buf
    /\ wr' = {}
    /\ UNCHANGED <<canvas, buf, oob, left, mvars, bvars>>

SeqNext ==
    \/ DrawPoint
    \/ FillRect
    \/ DrawLine
    \/ DrawFontFg
    \/ DrawStrFg
    \/ Continue

SeqSpec == SeqInit /\ [][SeqNext]_vars

(***************************************************************************)
(* Memory-map enumerator.  A descriptor is identified by its offset in     *)
(* memory_map_buffer: the buffer does not change while it is iterated.     *)
(***************************************************************************)
MEMORY_MAP_BUFFER_SIZE == 32768

MaxMapSize == 17    \* largest used size the firmware reports
MaxDescSize == 8    \* largest descriptor_size the firmware reports
\* The log of yielded offsets stops growing here; an enumeration that ends
\* yields at most MaxMapSize descriptors.
MaxLog == MaxMapSize + 2

\* MemoryMapHolder::new()
\* u64 page counts are kept in units of 2^52 pages: 2^64 is U64Range units,
\* and a count times 4096 overflows u64 from one unit on.
U64Range == 4096

\* The fields of EfiMemoryDescriptor the program reads.  An all-zero
\* descriptor has type RESERVED (= 0); the page counts are 2^52 and 2^63.
ZeroDescriptor == [memory_type |-> "RESERVED", number_of_pages |-> 0]
Descriptors ==
    {ZeroDescriptor}
        \cup [memory_type : {"CONVENTIONAL_MEMORY"}, number_of_pages : {1, 2048}]

\* memory_map_buffer: the descriptor read at offset 0 (head) and the one
\* read at every later offset (tail).
Buffers == [head : Descriptors, tail : Descriptors]
ZeroBuffer == [head |-> ZeroDescriptor, tail |-> ZeroDescriptor]

MemoryMapHolder_new ==
    [memory_map_buffer |-> ZeroBuffer,
     memory_map_size |-> MEMORY_MAP_BUFFER_SIZE,
     descriptor_size |-> 0]

\* What get_memory_map may leave in the holder: the firmware writes the
\* descriptors, the used size and the descriptor size.
FirmwareMaps ==
    [memory_map_buffer : Buffers,
     memory_map_size : 0 .. MaxMapSize,
     descriptor_size : 0 .. MaxDescSize]

\* MemoryMapHolder::iter()
MemoryMapHolder_iter == [ofs |-> 0]

\* The alignment of EfiMemoryDescriptor (repr(C), u64 fields).  The buffer
\* itself starts on such a boundary.
DescriptorAlign == 8

\* The call did not return: a panic, which ends in the panic handler.
Panic == <<"Panic">>

\* MemoryMapIterator::next(): the set of its outcomes.  Below the used size
\* it casts the bytes at ofs to &EfiMemoryDescriptor.  At an offset that is
\* no multiple of the alignment this reference is undefined behaviour: a
\* build with debug assertions panics ("misaligned pointer dereference")
\* before ofs is advanced, the other builds return the reference.
MemoryMapIterator_next(h, it) ==
    IF it.ofs >= h.memory_map_size
    THEN {[ret |-> None, it |-> it]}
    ELSE {[ret |-> Some(it.ofs), it |-> [ofs |-> it.ofs + h.descriptor_size]]}
         \cup (IF it.ofs % DescriptorAlign # 0
                THEN {[ret |-> Panic, it |-> it]}
                ELSE {})

\* The descriptor the reference next() returned points at.
DescriptorAt(h, ofs) ==
    IF ofs = 0 THEN h.memory_map_buffer.head ELSE h.memory_map_buffer.tail

\* The body of for e in memory_map.iter() { ... }: the set of its outcomes,
\* the new total or a panic.  total_memory_size += e.number_of_pages past
\* u64 panics ("attempt to add with overflow") in a build with overflow
\* checks and wraps in the other builds.
LoopBody(total, e) ==
    IF e.memory_type # "CONVENTIONAL_MEMORY"
    THEN {Some(total)}
    ELSE {Some((total + e.number_of_pages) % U64Range)}
         \cup (IF total + e.number_of_pages >= U64Range THEN {Panic} ELSE {})

\* total_memory_size * 4096 / 1024 / 1024: whether the statement completes.
\* The product past u64 panics ("attempt to multiply with overflow") in a
\* build with overflow checks and wraps in the other builds.
TotalMib(total) ==
    {"Ok"} \cup (IF total * 4096 >= U64Range THEN {"Panic"} ELSE {})

MemInit ==
    /\ holder = MemoryMapHolder_new
    /\ total_memory_size = 0
    /\ filled = FALSE
    /\ iter = NoIter
    /\ item = NoItem
    /\ yielded = <<>>
    /\ first = NoRun
    /\ RasterIdle
    /\ BootIdle

\* EfiBootServiceTable::get_memory_map, called once, before the map is read.
GetMemoryMap ==
    /\ ~filled
    /\ iter = NoIter
    /\ \E m \in FirmwareMaps : holder' = m
    /\ filled' = TRUE
    /\ UNCHANGED <<iter, item, yielded, first, total_memory_size, rvars, bvars>>

\* for e in memory_map.iter(): a first enumeration, and a second one once
\* the first has ended.
MemIter ==
    /\ \/ iter = NoIter
       \/ item = None /\ first = NoRun
    /\ iter' = MemoryMapHolder_iter
    /\ item' = NoItem
    /\ yielded' = <<>>
    /\ first' = IF iter = NoIter THEN first ELSE yielded
    /\ total_memory_size' = 0
    /\ UNCHANGED <<holder, filled, rvars, bvars>>

\* The loop calls next().
MemIterNext ==
    /\ iter # NoIter
    /\ item = NoItem
    /\ \E r \in MemoryMapIterator_next(holder, iter) :
           /\ iter' = r.it
           /\ item' = r.ret
    /\ UNCHANGED <<holder, filled, yielded, first, total_memory_size, rvars, bvars>>

\* The loop body takes the descriptor next() returned and adds its pages to
\* the total.  After a panic, of next() or of the body, the program is in
\* the panic handler and the loop takes no further step.
MemConsume ==
    /\ item[1] = "Some"
    /\ yielded' = IF Len(yielded) < MaxLog THEN Append(yielded, item[2]) ELSE yielded
    /\ \E b \in LoopBody(total_memory_size, DescriptorAt(holder, item[2])) :
           IF b = Panic
           THEN item' = Panic /\ total_memory_size' = total_memory_size
           ELSE item' = NoItem /\ total_memory_size' = b[2]
    /\ UNCHANGED <<holder, filled, iter, first, rvars, bvars>>

MemNext ==
    \/ GetMemoryMap
    \/ MemIter
    \/ MemIterNext
    \/ MemConsume

\* The program is single-threaded and the for loop never pauses: a step of
\* the enumeration that can be taken is taken.
MemSpec ==
    /\ MemInit
    /\ [][MemNext]_vars
    /\ WF_vars(MemIter)
    /\ WF_vars(MemIterNext)
    /\ WF_vars(MemConsume)

(***************************************************************************)
(* The entry point efi_main.  The frame buffer the firmware reports is far *)
(* larger than the canvases above, so efi_main keeps of it only whether a  *)
(* pixel was written; each drawing call is decided by the range checks of  *)
(* the rasterizer.                                                         *)
(***************************************************************************)
\* The status words locate_protocol returns: 0, 0x800000000000000E and
\* 0x8000000000000003.
FirmwareStatuses == {"Success", "NotFound", "Unsupported"}

\* status != EfiStatus::Success.  EfiStatus has the single variant Success,
\* and the derived PartialEq of such an enum reads no discriminant: every
\* status word compares equal to Success, in every build.
EfiStatus_ne(a, b) == FALSE

\* null_mut::<EfiGraphicsOutputProtocol>(): what graphic_output_protocol
\* still holds when the firmware did not find the protocol.
NullPtr == <<"null">>
\* A pointer to the protocol whose mode is g.
PtrTo(g) == <<"ptr", g>>

\* The graphics modes the firmware may report.
GraphicsModes ==
    [horizontal_resolution : {0, 33, 256, 257, 800},
     vertical_resolution : {0, 40, 256, 600},
     pixels_per_scan_line : {0, 256, 800, 1024}]

\* locate_graphic_protolocol: the set of its outcomes, for the status word
\* st and the pointer p the firmware left.  &*graphic_output_protocol of a
\* null pointer is undefined behaviour: a build with debug assertions
\* panics ("null pointer dereference occurred"), the other builds return a
\* reference to address 0.
locate_graphic_protolocol(st, p) ==
    IF EfiStatus_ne(st, "Success")
    THEN {<<"Err">>}
    ELSE IF p = NullPtr
         THEN {Panic, <<"Ok", NullPtr>>}
         ELSE {<<"Ok", p>>}

\* VramBufferInfo { width, height, pixels_per_line } of a mode.
VramOf(g) ==
    [width |-> g.horizontal_resolution,
     height |-> g.vertical_resolution,
     stride |-> g.pixels_per_scan_line]

\* init_vram: the set of its outcomes.  ? hands on the error; through the
\* reference to address 0 it reads gp.mode at address 0x18, which faults or
\* yields whatever geometry the bytes found there spell.
init_vram(st, p) ==
    UNION { IF r[1] # "Ok" THEN {r}
            ELSE IF r[2] = NullPtr
                 THEN {<<"Fault">>} \cup {<<"Ok", VramOf(g)>> : g \in GraphicsModes}
                 ELSE {<<"Ok", VramOf(r[2][2])>>}
          : r \in locate_graphic_protolocol(st, p) }

BootInit ==
    /\ pc = "init_vram"
    /\ vram = NoVram
    /\ fb_writes = FALSE
    /\ mm_queries = 0
    /\ lookups = 0
    /\ status = "none"
    /\ halted = FALSE
    /\ RasterIdle
    /\ MemIdle

\* let mut vram = init_vram(efi_system_table).expect("init_vram failed");
\* The firmware returns Success and the protocol, or a failure status and
\* leaves the pointer null.  expect panics on Err, and the panic handler is
\* the hlt loop; after a fault the program runs no further.
BootInitVram ==
    /\ pc = "init_vram"
    /\ \E st \in FirmwareStatuses :
       \E p \in (IF st = "Success" THEN {PtrTo(g) : g \in GraphicsModes} ELSE {NullPtr}) :
       \E r \in init_vram(st, p) :
           /\ status' = st
           /\ lookups' = lookups + 1
           /\ pc' = CASE r[1] = "Ok" -> "fill_rect_1"
                      [] r[1] = "Fault" -> "fault"
                      [] OTHER -> "panic"
           /\ vram' = IF r[1] = "Ok" THEN r[2] ELSE vram
    /\ UNCHANGED <<fb_writes, mm_queries, halted, rvars, mvars>>

\* The four fill_rect(...).expect("fill_rect failed") of efi_main.
FillRectCalls(v) ==
    << <<0, 0, v.width, v.height>>, <<32, 32, 32, 32>>,
       <<64, 64, 64, 64>>, <<128, 128, 128, 128>> >>

FillRectPc == <<"fill_rect_1", "fill_rect_2", "fill_rect_3", "fill_rect_4", "draw_points">>

BootFillRect ==
    /\ \E k \in 1 .. 4 :
           /\ pc = FillRectPc[k]
           /\ LET a == FillRectCalls(vram)[k]
              IN  IF FillRectOutOfRange(vram, a[1], a[2], a[3], a[4])
                  THEN pc' = "panic" /\ fb_writes' = fb_writes
                  ELSE pc' = FillRectPc[k + 1] /\ fb_writes' = TRUE
    /\ UNCHANGED <<vram, mm_queries, lookups, status, halted, rvars, mvars>>

\* Whether draw_line writes a pixel: its endpoints are in range and its loop
\* over 0..max(dx, dy) has a first step.
LineDraws(v, x0, y0, x1, y1) ==
    /\ ~DrawLineOutOfRange(v, x0, y0, x1, y1)
    /\ Max(Abs(x1 - x0), Abs(y1 - y0)) > 0

\* for i in 0..256 { let _ = draw_point(&mut vram, i, i, 0x01_01_01); }
BootDrawPoints ==
    /\ pc = "draw_points"
    /\ fb_writes' = (fb_writes \/ \E i \in 0 .. 255 : pixel_at_mut(vram, i, i)[1] = "Some")
    /\ pc' = "draw_grid"
    /\ UNCHANGED <<vram, mm_queries, lookups, status, halted, rvars, mvars>>

grid_size == 32
rect_size == grid_size * 8
GridSteps == {i \in 0 .. rect_size : i % grid_size = 0}

\* The grid: draw_line(0, i, rect_size, i) and draw_line(i, 0, i, rect_size).
BootDrawGrid ==
    /\ pc = "draw_grid"
    /\ fb_writes' = (fb_writes \/ \E i \in GridSteps :
                        \/ LineDraws(vram, 0, i, rect_size, i)
                        \/ LineDraws(vram, i, 0, i, rect_size))
    /\ pc' = "draw_rays"
    /\ UNCHANGED <<vram, mm_queries, lookups, status, halted, rvars, mvars>>

\* The rays from the centre (cx, cy) to the four sides of the grid.
BootDrawRays ==
    /\ pc = "draw_rays"
    /\ LET cx == rect_size \div 2
           cy == rect_size \div 2
       IN  fb_writes' = (fb_writes \/ \E i \in GridSteps :
                            \/ LineDraws(vram, cx, cy, 0, i)
                            \/ LineDraws(vram, cx, cy, i, 0)
                            \/ LineDraws(vram, cx, cy, rect_size, i)
                            \/ LineDraws(vram, cx, cy, i, rect_size))
    /\ pc' = "draw_text"
    /\ UNCHANGED <<vram, mm_queries, lookups, status, halted, rvars, mvars>>

\* draw_font_fg of "ABCDEF" and 'A', draw_str_fg of "Hello, world!" and the
\* four writeln! lines: whether a glyph has ink on the canvas depends on the
\* font table.
BootDrawText ==
    /\ pc = "draw_text"
    /\ \E inked \in BOOLEAN : fb_writes' = (fb_writes \/ inked)
    /\ pc' = "get_memory_map"
    /\ UNCHANGED <<vram, mm_queries, lookups, status, halted, rvars, mvars>>

\* MemoryMapHolder::new(), get_memory_map (its status is only printed) and
\* memory_map.iter(): the firmware fills the holder or leaves it as built.
BootGetMemoryMap ==
    /\ pc = "get_memory_map"
    /\ holder' \in {MemoryMapHolder_new} \cup FirmwareMaps
    /\ filled' = TRUE
    /\ iter' = MemoryMapHolder_iter
    /\ mm_queries' = mm_queries + 1
    /\ total_memory_size' = 0
    /\ pc' = "memory_map_loop"
    /\ UNCHANGED <<vram, fb_writes, lookups, status, halted, item, yielded, first, rvars>>

\* One turn of for e in memory_map.iter() { ... }.
BootMemoryMapLoop ==
    /\ pc = "memory_map_loop"
    /\ \E r \in MemoryMapIterator_next(holder, iter) :
           /\ iter' = r.it
           /\ IF r.ret[1] # "Some"
              THEN /\ pc' = IF r.ret = None THEN "total" ELSE "panic"
                   /\ total_memory_size' = total_memory_size
              ELSE \E b \in LoopBody(total_memory_size, DescriptorAt(holder, r.ret[2])) :
                       IF b = Panic
                       THEN pc' = "panic" /\ total_memory_size' = total_memory_size
                       ELSE pc' = "memory_map_loop" /\ total_memory_size' = b[2]
    /\ UNCHANGED <<vram, fb_writes, mm_queries, lookups, status, halted,
                   holder, filled, item, yielded, first, rvars>>

\* let total_memory_size_mib = ...; writeln!(w, "Total Memory Size: ...")
\* and on to the final loop.
BootTotal ==
    /\ pc = "total"
    /\ \E t \in TotalMib(total_memory_size) :
           pc' = IF t = "Panic" THEN "panic" ELSE "hlt"
    /\ UNCHANGED <<vram, fb_writes, mm_queries, lookups, status, halted, rvars, mvars>>

\* loop { hlt(); } at the end of efi_main and in the panic handler.
BootHlt ==
    /\ pc \in {"hlt", "panic"}
    /\ halted' = TRUE
    /\ UNCHANGED <<pc, vram, fb_writes, mm_queries, lookups, status, rvars, mvars>>

BootNext ==
    \/ BootInitVram
    \/ BootFillRect
    \/ BootDrawPoints
    \/ BootDrawGrid
    \/ BootDrawRays
    \/ BootDrawText
    \/ BootGetMemoryMap
    \/ BootMemoryMapLoop
    \/ BootTotal
    \/ BootHlt

BootSpec == BootInit /\ [][BootNext]_vars

(***************************************************************************)
(* Properties of the rasterizer.  The notions below are stated from the    *)
(* geometry of the canvas, not from the operators of the model.            *)
(***************************************************************************)
OnCanvas(c, x, y) == 0 <= x /\ x < c.width /\ 0 <= y /\ y < c.height

InRange(c, x, y) ==
    /\ 0 <= x /\ x < c.width /\ x < c.stride
    /\ 0 <= y /\ y < c.height

SlotOf(c, x, y) == y * c.stride + x

AllowedSlots(c) ==
    {SlotOf(c, x, y) : x \in {i \in 0 .. (c.width - 1) : i < c.stride},
                       y \in 0 .. (c.height - 1)}

\* C1: fill_rect is all-or-nothing: when the top-left corner (px, py) or the
\* bottom-right corner (px+w-1, py+h-1) is outside the canvas, fill_rect
\* returns the out-of-range error and no pixel of the buffer has changed.
C1_FillRectAllOrNothing ==
    call.op = "fill_rect" =>
        LET px == call.args[1]
            py == call.args[2]
            w == call.args[3]
            h == call.args[4]
        IN  (~OnCanvas(canvas, px, py) \/ ~OnCanvas(canvas, px + w - 1, py + h - 1))
                => /\ call.res = "Err"
                   /\ buf = prev
                   /\ wr = {}
                   /\ oob = {}

\* A rectangle that starts on the canvas and ends beyond it was refused.
C1_Witness ==
    /\ call.op = "fill_rect"
    /\ OnCanvas(canvas, call.args[1], call.args[2])
    /\ call.args[3] > 0 /\ call.args[4] > 0
    /\ ~OnCanvas(canvas, call.args[1] + call.args[3] - 1, call.args[2] + call.args[4] - 1)
    /\ call.res = "Err"

\* C2: for every in-range (x, y), draw_line(x, y, x, y, c) returns success
\* and sets exactly one pixel, the one at (x, y), to c; every other pixel is
\* unchanged.
C2_DrawLineSinglePoint ==
    (/\ call.op = "draw_line"
     /\ call.args[1] = call.args[3]
     /\ call.args[2] = call.args[4]
     /\ InRange(canvas, call.args[1], call.args[2]))
        => /\ call.res = "Ok"
           /\ wr = {SlotOf(canvas, call.args[1], call.args[2])}
           /\ buf = [prev EXCEPT ![SlotOf(canvas, call.args[1], call.args[2])] = call.args[5]]

\* The pixels the line from (x0, y0) to (x1, y1) is specified to set: one per
\* major-axis step ia in [0, da], at minor offset floor((2*db*ia + da) / (2*da)).
LinePixels(c, x0, y0, x1, y1) ==
    LET dx == Abs(x1 - x0)
        dy == Abs(y1 - y0)
        sx == Signum(x1 - x0)
        sy == Signum(y1 - y0)
        da == Max(dx, dy)
        db == Min(dx, dy)
        ib(ia) == IF da = 0 THEN 0 ELSE (2 * db * ia + da) \div (2 * da)
    IN  IF dx >= dy
        THEN {SlotOf(c, x0 + ia * sx, y0 + ib(ia) * sy) : ia \in 0 .. da}
        ELSE {SlotOf(c, x0 + ib(ia) * sx, y0 + ia * sy) : ia \in 0 .. da}

\* C3: for in-range endpoints draw_line sets exactly the da+1 pixels
\* (x0 + ia*sign_major, y0 + ib*sign_minor), ia in [0, da], both endpoints
\* included.
C3_DrawLineSetsEveryStep ==
    (/\ call.op = "draw_line"
     /\ InRange(canvas, call.args[1], call.args[2])
     /\ InRange(canvas, call.args[3], call.args[4]))
        => /\ call.res = "Ok"
           /\ wr = LinePixels(canvas, call.args[1], call.args[2], call.args[3], call.args[4])
           /\ Cardinality(wr) =
                  Max(Abs(call.args[3] - call.args[1]), Abs(call.args[4] - call.args[2])) + 1

\* C4: reversal symmetry: from the same buffer, draw_line(a, b, c, d) and
\* draw_line(c, d, a, b) set the same set of pixels.
C4_DrawLineReversalSymmetry ==
    (/\ call.op = "draw_line"
     /\ InRange(canvas, call.args[1], call.args[2])
     /\ InRange(canvas, call.args[3], call.args[4]))
        => wr = draw_line(DState(prev, {}, {}), canvas, call.args[3], call.args[4],
                          call.args[1], call.args[2], call.args[5]).st.wr

\* The slots of the bounding box of two points.
BoxSlots(c, x0, y0, x1, y1) ==
    {SlotOf(c, x, y) : x \in Min(x0, x1) .. Max(x0, x1), y \in Min(y0, y1) .. Max(y0, y1)}

\* C9: endpoint-only validation of draw_line is sound: with both endpoints in
\* range every pixel written lies in the bounding box of the endpoints and
\* draw_line succeeds (it never stops part-way with an error); with an
\* endpoint out of range it returns the error and writes nothing.
C9_DrawLineValidationSound ==
    call.op = "draw_line" =>
        LET x0 == call.args[1]
            y0 == call.args[2]
            x1 == call.args[3]
            y1 == call.args[4]
        IN  /\ call.res = "Err" => (wr = {} /\ buf = prev)
            /\ oob = {}
            /\ IF InRange(canvas, x0, y0) /\ InRange(canvas, x1, y1)
               THEN call.res = "Ok" /\ wr \subseteq BoxSlots(canvas, x0, y0, x1, y1)
               ELSE call.res = "Err"

\* A sloped line of at least three major steps between in-range endpoints.
C9_Witness ==
    /\ call.op = "draw_line"
    /\ InRange(canvas, call.args[1], call.args[2])
    /\ InRange(canvas, call.args[3], call.args[4])
    /\ Abs(call.args[3] - call.args[1]) >= 3
    /\ Abs(call.args[4] - call.args[2]) >= 1
    /\ call.res = "Ok"
    /\ Cardinality(wr) >= 3

\* C5 as stated: for every (x, y) with 0 <= x < width and 0 <= y < height,
\* draw_point succeeds and the checked accessor then reads that colour.
C5_DrawPointReadBackWidth ==
    (call.op = "draw_point" /\ OnCanvas(canvas, call.args[1], call.args[2]))
        => /\ call.res = "Ok"
           /\ ReadPixel(buf, canvas, call.args[1], call.args[2]) = Some(call.args[3])

\* C5 amended: for every (x, y) with 0 <= x < min(width, stride) and
\* 0 <= y < height, draw_point succeeds and the checked accessor then reads
\* that colour, whatever calls were made before.
C5_DrawPointReadBack ==
    (call.op = "draw_point" /\ InRange(canvas, call.args[1], call.args[2]))
        => /\ call.res = "Ok"
           /\ ReadPixel(buf, canvas, call.args[1], call.args[2]) = Some(call.args[3])

\* A draw_point that overwrote a pixel an earlier call had coloured otherwise.
C5_Witness ==
    /\ call.op = "draw_point"
    /\ call.res = "Ok"
    /\ InRange(canvas, call.args[1], call.args[2])
    /\ prev[SlotOf(canvas, call.args[1], call.args[2])] \notin {Background, call.args[3]}
    /\ buf[SlotOf(canvas, call.args[1], call.args[2])] = call.args[3]

\* C10: after any sequence of drawing calls the only cells ever written are
\* those at y*stride + x with 0 <= x < min(width, stride), 0 <= y < height:
\* no write leaves the backing region and no padding cell is modified.
C10_WritesStayOnCanvas ==
    /\ oob = {}
    /\ wr \subseteq AllowedSlots(canvas)
    /\ AllowedSlots(canvas) \subseteq Slots(canvas)
    /\ \A k \in DOMAIN buf : k \notin AllowedSlots(canvas) => buf[k] = Background

\* A string drawn across the edge of a padded canvas, after earlier calls.
C10_Witness ==
    /\ call.op = "draw_str_fg"
    /\ canvas.stride > canvas.width
    /\ left < MaxOps - 1
    /\ wr # {}
    /\ wr # AllowedSlots(canvas)
    /\ \E k \in AllowedSlots(canvas) : prev[k] # Background

(***************************************************************************)
(* Properties of the memory-map enumerator.                                *)
(***************************************************************************)
\* C6: the number of descriptors one enumeration yields, times
\* descriptor_size, never exceeds the used size memory_map_size, also when
\* the used size is no multiple of descriptor_size; and a second enumeration
\* yields the same sequence as the first.
C6_YieldedWithinUsedSize ==
    /\ Len(yielded) * holder.descriptor_size <= holder.memory_map_size
    /\ (first # NoRun /\ item = None) => yielded = first

\* C7: the enumeration is finite: once iter() has been called, the calls of
\* next() stop after finitely many steps, for every state of the holder:
\* next() returns None (or the program has stopped in a panic).
C7_EnumerationEnds == (iter # NoIter) ~> (item \in {None, Panic})

(***************************************************************************)
(* Properties of the entry point.                                          *)
(***************************************************************************)
\* C8: when the graphics-protocol lookup returns a non-success status, the
\* entry point writes no frame-buffer pixel and makes no memory-map query,
\* is in the idle (hlt) loop of the panic handler and stays there: it never
\* retries the lookup and never resumes drawing.
C8_LookupFailureHalts ==
    (status \notin {"none", "Success"})
        => /\ pc = "panic"
           /\ ~fb_writes
           /\ mm_queries = 0
           /\ lookups = 1
           /\ vram = NoVram

====
